---- MODULE Spec2Model ----
(***************************************************************************)
(* State-tracked playlist synchronisation of youtube-music-sync.            *)
(*                                                                         *)
(* Three orchestrators share the state file download_state.json:           *)
(*   "cli"    main.py        YouTubeApp.run  + DownloadEngine.download      *)
(*   "dash"   dashboard.py   run_sync        + DownloadEngine.download      *)
(*   "script" youtube_music_downloader_with_ytdlp.py  run/download_playlist *)
(* src/StateManager.py is not part of the sources; its operations (load,    *)
(* is_completed, mark_completed, get_cached_info, cache_info) follow        *)
(* section 4.1 of the specification.                                       *)
(*                                                                         *)
(* Specifications:                                                         *)
(*   Spec         the runs of one process (one session of the dashboard)    *)
(*   SpecPeer     Spec with a second browser session of the dashboard       *)
(*   SpecResolve  PlaylistResolver: explicit URLs, playlist file, channel   *)
(*   SpecClean    a call of clean_filename                                  *)
(*   SpecPost     the post-processing phase of a download call, by file     *)
(*   SpecScan     the output loop of a download call, with its lines        *)
(*   SpecArchive  the download-archive ledger and its clearing               *)
(*   SpecReset    Spec with the dashboard's Reset Download State button      *)
(*   SpecLoad     the script's load_state and the first step of its run()    *)
(***************************************************************************)
EXTENDS Integers, Sequences, FiniteSets, TLC

\* ---------------------------------------------------------------- bounds
MaxIds == 2
MaxList == 2
MaxLines == 2
MaxUrl == 3
MaxRuns == 3
MaxFiles == 2

Ids == 1..MaxIds
\* process.returncode: 0, 1 (the downloader's "some items failed") and another
ExitCodes == {0, 1, 2}
\* process.returncode while the subprocess has not been waited for (None)
NoCode == -1
\* no download of another dashboard session is in flight
NoPeer == 0
Apps == {"cli", "dash", "script"}

\* One output line of the downloader, by the substrings the code tests:
\*   blank        line.strip() is empty
\*   start        "[download]" / "[extractaudio]" / "already been recorded in
\*                the archive" occurs in line.lower()
\*   error        "error:" occurs in line.lower()
\*   ignore       "ignore" occurs in line.lower()
\*   unavailable  "video unavailable" or "private video" occurs in line.lower()
Lines ==
  { l \in [blank : BOOLEAN, start : BOOLEAN, error : BOOLEAN,
           ignore : BOOLEAN, unavailable : BOOLEAN] :
      l.blank => ~(l.start \/ l.error \/ l.ignore \/ l.unavailable) }

\* One output line as the script reads it:
\*   blank     line.strip() is empty
\*   progress  "[download]" with "%", or "[download] Destination:", in line
ScriptLines == { l \in [blank : BOOLEAN, progress : BOOLEAN] : l.blank => ~l.progress }

\* ------------------------------------------------------------- sequences
Range(s) == { s[i] : i \in 1..Len(s) }

NoDup(s) == \A i, j \in 1..Len(s) : i # j => s[i] # s[j]

SeqsUpTo(S, n) == UNION { [1..k -> S] : k \in 0..n }

\* the ids of a list are numbered in the order of their first occurrence (ids
\* are opaque: every resolved list is such a list up to renaming)
FirstUse(pl) ==
  \A i \in 1..Len(pl) : pl[i] = 1 \/ \E j \in 1..(i - 1) : pl[j] = pl[i] - 1

\* ascending sequence of the elements of a set of ids
RECURSIVE SetToSeq(_)
SetToSeq(S) ==
  IF S = {} THEN << >>
  ELSE LET m == CHOOSE x \in S : \A y \in S : x <= y
       IN << m >> \o SetToSeq(S \ {m})

\* -------------------------------------------------------------- state file
\* download_state.json: absent, parsable with a completed_playlists list, or
\* truncated (opened for writing, content not yet or only partly written)
FileAbsent == [kind |-> "absent", completed |-> << >>]
FileTruncated == [kind |-> "truncated", completed |-> << >>]
FileOf(done) == [kind |-> "valid", completed |-> done]

\* completed_playlists after load_state: the file's list when it parses, the
\* empty list when the file is absent, empty or unparsable
LoadedState(d) == IF d.kind = "valid" THEN d.completed ELSE << >>

FileAfterLoad_never(d, wok) == d

\* load_state writes the fresh empty state when the file is absent or does not
\* parse; wok is whether that write goes through (save_state swallows a failure)
FileAfterLoad(d, wok) ==
  IF d.kind = "valid" THEN d
  ELSE IF wok THEN FileOf(<< >>) ELSE d

\* ------------------------------------------------------------ StateManager
is_completed(done, id) == id \in Range(done)

mark_completed(done, id) == IF is_completed(done, id) THEN done ELSE Append(done, id)

\* ------------------------------------------------ orchestrator decisions
Remaining_all(pl, done) == pl

\* remaining = [p for p in playlists if not self.state.is_completed(p["id"])]
Remaining(pl, done) == SelectSeq(pl, LAMBDA p : ~is_completed(done, p))

\* nothing printed (main.py returns before the summary when nothing resolved)
NoReport == << >>

\* print("Summary:") Total Playlists / Already Synced / Pending Sync; nothing
\* else with a count is printed afterwards ("All tasks finished!")
Summary(pl, rem) ==
  [total |-> Len(pl), synced |-> Len(pl) - Len(rem), pending |-> Len(rem)]

ShouldMark_always(ok) == TRUE

\* if success: self.state.mark_completed(p["id"])
ShouldMark(ok) == ok

AfterFailure_unmark(done, id) == SelectSeq(done, LAMBDA p : p # id)

\* the completed set after a download call for id returned False: the "else"
\* of the CLI loop only prints, run_sync only updates the status widget and
\* returns False
AfterFailure(done, id) == done

\* -------------------------------------------------- DownloadEngine.download
LineStarts(l) == ~l.blank /\ l.start

LineIsError_marker(l) == ~l.blank /\ l.error

\* if "error:" in line.lower() and "ignore" not in line.lower():
LineIsError(l) == ~l.blank /\ l.error /\ ~l.ignore

LineIsFatal_any(l) == LineIsError(l)

\* if "video unavailable" in ... or "private video" in ...: warning; continue
\* else: error_occurred = True; error_logs.append(line)
LineIsFatal(l) == LineIsError(l) /\ ~l.unavailable

\* an error line reporting "video unavailable" or "private video"
Recoverable(l) == LineIsError(l) /\ l.unavailable

\* success = process.returncode == 0 or (download_started and not error_occurred)
Success(rc, started, err) == rc = 0 \/ (started /\ ~err)

\* the early "return False" sits inside "if error_logs:" under "if not success:"
ReturnsFailure(ok, logs) == ~ok /\ logs # << >>

\* ------------------------------------------------- script download_playlist
\* remaining = [p for p in playlists if str(p["id"]) not in completed_playlists]
ScriptRemaining(pl, done) == SelectSeq(pl, LAMBDA p : p \notin Range(done))

ScriptSkip_never(done, id) == FALSE

\* if playlist_id in self.state["completed_playlists"]: return True
ScriptSkip(done, id) == id \in Range(done)

ScriptLineStarts(l) == ~l.blank /\ l.progress

\* process.returncode == 0 or (download_started and process.returncode == 1)
ScriptOk(rc, started) == rc = 0 \/ (started /\ rc = 1)


\* ------------------------------------------------------ PlaylistResolver
\* A URL or a line of the playlist file is a sequence of tokens: the
\* substrings the code looks for, and "a" for any other character.
\*   "http"  the prefix tested by line.startswith("http")
\*   "list=" the parameter name searched by the regular expressions
\*   "PL"    a prefix tested by line.startswith(("PL", "OL"))
\*   " "     whitespace
Chars == {"http", "list=", "&", "/", " ", "#", "PL", "a"}

Texts == SeqsUpTo(Chars, MaxUrl)

StartsWith(s, t) == Len(s) >= 1 /\ s[1] = t

Contains(s, t) == \E i \in 1..Len(s) : s[i] = t

\* str.strip(): leading and trailing whitespace removed
strip(s) ==
  LET keep == { i \in 1..Len(s) : s[i] # " " }
  IN IF keep = {} THEN << >>
     ELSE SubSeq(s, CHOOSE i \in keep : \A j \in keep : i <= j,
                    CHOOSE i \in keep : \A j \in keep : i >= j)

\* end of the longest run of tokens outside Stop that starts at position i
RunEnd(s, i, Stop) ==
  CHOOSE j \in (i - 1)..Len(s) :
    /\ \A k \in i..j : s[k] \notin Stop
    /\ j = Len(s) \/ s[j + 1] \in Stop

\* positions where the pattern list=([^Stop]+) matches
ListMatches(s, Stop) ==
  { i \in 1..(Len(s) - 1) : s[i] = "list=" /\ s[i + 1] \notin Stop }

\* group(1) of re.search(r"list=([^Stop]+)", s), the leftmost match
ListGroup(s, Stop) ==
  LET i == CHOOSE m \in ListMatches(s, Stop) : \A n \in ListMatches(s, Stop) : m <= n
  IN SubSeq(s, i + 1, RunEnd(s, i + 1, Stop))

\* url.split("/")[-1]
LastSegment(url) ==
  LET slashes == { i \in 1..Len(url) : url[i] = "/" }
  IN IF slashes = {} THEN url
     ELSE SubSeq(url, (CHOOSE i \in slashes : \A j \in slashes : i >= j) + 1, Len(url))

\* match = re.search(r"list=([^&]+)", url)
\* return match.group(1) if match else url.split("/")[-1]
extract_id(url) ==
  IF ListMatches(url, {"&"}) # {} THEN ListGroup(url, {"&"}) ELSE LastSegment(url)

\* "https://music.youtube.com/playlist?list="
Canonical == << "http", "/", "list=" >>

\* from_file, the body of "for line in f": the URLs (none or one) the line adds
LineUrls(line) ==
  LET l == strip(line)
  IN IF l = << >> \/ StartsWith(l, "#") THEN << >>
     ELSE IF Contains(l, "list=")
       THEN IF StartsWith(l, "http") THEN << l >>
            ELSE IF ListMatches(l, {"&", " "}) # {}
              THEN << Canonical \o ListGroup(l, {"&", " "}) >>
              ELSE << >>
     ELSE IF StartsWith(l, "PL") THEN << Canonical \o l >>
     ELSE << >>

\* the value None
None == [none |-> TRUE]

\* what the metadata query of get_playlist_info can come to:
\*   error     nonzero exit (CalledProcessError)
\*   garbage   output that json.loads or data.get rejects (Exception)
\*   empty     exit 0 with no non-empty output line
\*   titled    a JSON object with playlist_title or playlist
\*   untitled  a JSON object with neither
QueryOutcomes == {"error", "garbage", "empty", "titled", "untitled"}

\* {"id": str(playlist_id), "title": f"Playlist_{playlist_id}", "url": url}
Fallback(id, url) == [id |-> id, title |-> << "Playlist_" >> \o id, url |-> url]

\* the value get_playlist_info returns after a query with outcome out: with no
\* non-empty output line the loop ends without a return statement
InfoOf(id, url, out) ==
  IF out = "empty" THEN None
  ELSE IF out = "titled" THEN [id |-> id, title |-> << "t" >>, url |-> url]
  ELSE Fallback(id, url)

\* StateManager.get_cached_info / cache_info
EmptyCache == [x \in {} |-> None]

get_cached_info(c, id) == IF id \in DOMAIN c THEN c[id] ELSE None

cache_info(c, id, info) == [x \in DOMAIN c \cup {id} |-> IF x = id THEN info ELSE c[x]]

\* One entry of the channel listing (data["entries"]): its "id" (<< >>: missing
\* or empty) and whether it has a "title"
Entries == [id : {<< >>, << "a" >>, << "PL", "a" >>}, titled : BOOLEAN]

ChannelInfo_urlid(e) ==
  [id |-> Canonical \o e.id, title |-> << "c" >>, url |-> Canonical \o e.id,
   thumbnails |-> << >>]

\* from_channel: {"id": str(playlist_id), "title": entry.get("title", ...),
\* "url": entry.get("url", ...), "thumbnails": ..., "ie_key": ...}
ChannelInfo(e) ==
  [id |-> e.id,
   title |-> IF e.titled THEN << "c" >> ELSE << "Playlist_" >> \o e.id,
   url |-> Canonical \o e.id,
   thumbnails |-> << >>]

\* URLs and lines the lists of more than one element are made of
SampleUrls ==
  { << "http", "/", "list=", "a" >>,
    << "http", "/", "list=", "a", "&", "a" >>,
    << "http", "/", "list=", "PL", "a" >>,
    << "http", "/", "a", "/" >> }

SampleLines ==
  { << >>, << " " >>, << "#", "a" >>, << " ", "#", "list=", "a" >>,
    << "http", "/", "list=", "a" >>, << "list=", "a", "&", "a" >>,
    << "a", " ", "list=", "a", " ", "a" >>, << "list=" >>,
    << "PL", "a" >>, << " ", "PL", "a", " " >>, << "a" >> }

\* a cache left by an earlier run
SeedCache ==
  cache_info(EmptyCache, << "a" >>,
             [id |-> << "a" >>, title |-> << "t" >>, url |-> << "http", "/", "list=", "a" >>])


\* ------------------------------------------------------- clean_filename
\* A title is a sequence of runs [ch, n]: the character ch repeated n times.
\* cleaned[:200]
NameCap == 200

\* r'[<>:"/\\|?*]' if os_type == "windows" else r"[/\0]"
Forbidden(os) ==
  IF os = "windows" THEN {"<", ">", ":", "\"", "/", "\\", "|", "?", "*"}
  ELSE {"/", "NUL"}

\* the characters titles are made of here: a letter, the characters strip
\* removes, a character forbidden everywhere, one forbidden on each OS only
NameChars == {"a", " ", ".", "/", ":", "NUL"}

RunLens == {1, NameCap - 1, NameCap}

Runs == [ch : NameChars, n : RunLens]

RECURSIVE StrLen(_)
StrLen(s) == IF s = << >> THEN 0 ELSE Head(s).n + StrLen(Tail(s))

\* re.sub(regex, "", name)
Remove(s, F) == SelectSeq(s, LAMBDA r : r.ch \notin F)

\* str.strip(". ")
StripRuns(s, W) ==
  LET keep == { i \in 1..Len(s) : s[i].ch \notin W }
  IN IF keep = {} THEN << >>
     ELSE SubSeq(s, CHOOSE i \in keep : \A j \in keep : i <= j,
                    CHOOSE i \in keep : \A j \in keep : i >= j)

\* s[:n]
RECURSIVE Take(_, _)
Take(s, n) ==
  IF s = << >> \/ n = 0 THEN << >>
  ELSE IF Head(s).n <= n THEN << Head(s) >> \o Take(Tail(s), n - Head(s).n)
  ELSE << [ch |-> Head(s).ch, n |-> n] >>

\* cleaned = re.sub(regex, "", name).strip(". "); return cleaned[:200]
clean_filename(name, os) == Take(StripRuns(Remove(name, Forbidden(os)), {".", " "}), NameCap)

\* --------------------------------------- post-processing, file by file
\* the *.opus and the *.vtt files a destination directory can hold
Files == 1..MaxFiles

\* what the conversion of one audio file can come to:
\*   ok       subprocess.run(ffmpeg, check=True) returned (exit code 0)
\*   failed   ffmpeg exited nonzero (CalledProcessError)
\*   crashed  any other exception (ffmpeg could not be run, ...)
ConvOutcomes == {"ok", "failed", "crashed"}

Unlinks_always(out) == TRUE

\* opus_file.unlink() follows subprocess.run(..., check=True) inside the try:
\* it is reached only when the transcoder exited with code 0
Unlinks(out) == out = "ok"

AfterFile_abort(q, k, out) == IF out = "ok" THEN k + 1 ELSE Len(q) + 1

\* "except CalledProcessError" / "except Exception" inside the for loop (and
\* the same around vtt_to_lrc): the failure is logged and the loop goes on
\* with the next file of the list q
AfterFile(q, k, out) == k + 1

VARIABLES
  app,              \* which orchestrator this behaviour is about
  download_lyrics,  \* getattr(config, "download_lyrics", False)
  playlists,        \* the resolved playlist list (ids, in resolution order)
  disk,             \* download_state.json
  mem,              \* state["completed_playlists"] of the running process
  pc,               \* position of the orchestrator / of the call it is in
  remaining,        \* the items this run processes
  idx,              \* index of the current item in remaining
  status,           \* per item of remaining: Pending/Running/Completed/Failed
  download_started, error_occurred, error_logs, nread, returncode,
  alt_started,      \* download_started and error_occurred as the same stream
  alt_error,        \* without its "unavailable"/"private" error lines sets them
  success,          \* value returned by the current / last download call
  saveOk,           \* outcome of the state write of the current item, or of
                    \* the load just made
  writeFailed,      \* some state write of the current run failed
  loaded,           \* completed set as loaded when the current run started
  prevEnd,          \* how the run before the current one ended ("idle": none)
  loadedFrom,       \* kind of the state file the load just made found
                    \* ("none": no load since the last run began)
  report,           \* the aggregate counts the current run has printed
  prevFailed,       \* ids of the items that ended Failed in the run before,
                    \* kept until the first item of the current run begins
  staleCall,        \* the downloader was invoked for an id already completed
  ppDone,           \* post-processing steps the call in progress carried out
                    \* ("raised": one of them raised outside its own handler)
  okReturned,       \* ids for which a download call of this run returned True
  marked,           \* ids this run added to the completed set
  blindMarks,       \* ids marked after a call with nonzero exit and no marker
  memAtCall,        \* completed set when the current item's call began
  peer,             \* id whose download another browser session of the same
                    \* dashboard process has in flight (NoPeer: none)
  \* resolution of the configured input into playlist descriptors
  rmethod,          \* config.input_method: "urls" (playlist_urls), "file"
                    \* or "channel"
  rinput,           \* config.playlist_urls, the lines of the playlist file, or
                    \* the entries of the channel listing
  rpc,              \* position of the resolution
  rk,               \* index of the next line / URL
  urls,             \* the URLs to resolve
  cache,            \* state["playlist_info"]: id -> descriptor
  calls,            \* the get_playlist_info calls made: url, id, outcome of
                    \* the query ("cached": none made), returned value
  resolved,         \* the resolved list, None results filtered out
  \* a call of clean_filename
  cname,            \* the title passed
  cos,              \* config.os_type
  cout,             \* the value returned
  cpc,              \* "in": called, "out": returned
  \* the post-processing phase of one download call, file by file
  source,           \* the *.opus files in dest_dir
  captions,         \* the *.vtt files in dest_dir
  opus_files,       \* list(dest_dir.glob("*.opus"))
  vtt_files,        \* the files dest_dir.glob("*.vtt") yields
  ffmpeg,           \* per audio file: what its conversion came to ("none":
                    \* not attempted)
  lrc,              \* per caption file: what vtt_to_lrc came to
  pk,               \* index of the next file of the loop in progress
  ppc,              \* position in the phase
  pret,             \* the value download returns ("none": not returned)
  \* the output loop of one download call, with the lines it reads
  stream,           \* the lines the downloader prints
  sk,               \* index of the next line of stream
  \* the download-archive ledger of the dashboard's process
  archive,          \* download_archive.txt in the working directory: the
                    \* tracks recorded in it
  dirs,             \* per playlist: the tracks present in its dest_dir
  rootHasCwd,       \* the working directory lies under config.root_path
  atClear,          \* the ledger as the last Clear Download Archives found it
  consulted,        \* the ledger as the last download call found it
  aphase,           \* "fresh"; "cleared": the button has just been used;
                    \* "next": the first download call after it has been made
  \* the script's load_state, with the content of the state file
  state_file,       \* download_state.json, as a JSON value
  state,            \* self.state
  lpc               \* "init": before load_state; "loaded"; "running": run() is
                    \* past its first access of the state; "load_raised",
                    \* "run_raised": an exception left load_state / run

vars == << app, download_lyrics, playlists, disk, mem, pc, remaining, idx, status,
           download_started, error_occurred, error_logs, nread, returncode,
           alt_started, alt_error,
           success, saveOk, writeFailed, loaded, prevEnd, loadedFrom, report,
           prevFailed, staleCall,
           ppDone, okReturned, marked, blindMarks, memAtCall, peer,
           rmethod, rinput, rpc, rk, urls, cache, calls, resolved,
           cname, cos, cout, cpc,
           source, captions, opus_files, vtt_files, ffmpeg, lrc, pk, ppc, pret,
           stream, sk, archive, dirs, rootHasCwd, atClear, consulted, aphase,
           state_file, state, lpc >>

inputVars == << app, download_lyrics, playlists >>
resVars == << rmethod, rinput, rpc, rk, urls, cache, calls, resolved >>
\* what no action of the session (process) under observation changes
cleanVars == << cname, cos, cout, cpc >>
postVars == << source, captions, opus_files, vtt_files, ffmpeg, lrc, pk, ppc, pret >>
\* the variables of the parts looked at on their own
scanVars == << stream, sk >>
archVars == << archive, dirs, rootHasCwd, atClear, consulted, aphase >>
loadVars == << state_file, state, lpc >>
auxVars == << postVars, scanVars, archVars, loadVars >>
cfgVars == << inputVars, peer, resVars, cleanVars, auxVars >>
\* the variables of the synchronisation runs
syncVars == << inputVars, peer, disk, mem, pc, idx, status, download_started,
               error_occurred, error_logs, nread, returncode, alt_started,
               alt_error, success, saveOk,
               writeFailed, remaining, loaded, prevEnd, loadedFrom, report,
               prevFailed, staleCall, ppDone, okReturned, marked, blindMarks,
               memAtCall >>
locals == << download_started, error_occurred, error_logs, nread, returncode,
            alt_started, alt_error >>
\* what a run fixes when it begins
runKept == << remaining, loaded, prevEnd, loadedFrom, report >>
runVars == << runKept, prevFailed >>
\* the outcome wok of a state write, recorded for the item and for the run
Written(wok) ==
  /\ saveOk' = IF wok THEN "ok" ELSE "failed"
  /\ writeFailed' = (writeFailed \/ ~wok)

Terminal == {"Completed", "Failed"}
Ended == {"idle", "done", "crashed", "interrupted"}

CurId == remaining[idx]

\* ids of the items of the current run that ended Failed
FailedIds == { remaining[i] : i \in { j \in DOMAIN status : status[j] = "Failed" } }

\* no resolution is going on
ResOff ==
  /\ rmethod = "urls"
  /\ rinput = << >>
  /\ rpc = "off"
  /\ rk = 1
  /\ urls = << >>
  /\ cache = EmptyCache
  /\ calls = << >>
  /\ resolved = << >>

\* no call of clean_filename is looked at
CleanOff ==
  /\ cname = << >>
  /\ cos = "windows"
  /\ cout = << >>
  /\ cpc = "off"

\* no post-processing phase is looked at
PostOff ==
  /\ source = {}
  /\ captions = {}
  /\ opus_files = << >>
  /\ vtt_files = << >>
  /\ ffmpeg = [f \in Files |-> "none"]
  /\ lrc = [f \in Files |-> "none"]
  /\ pk = 1
  /\ ppc = "off"
  /\ pret = "none"

\* no output loop is followed line by line
ScanOff ==
  /\ stream = << >>
  /\ sk = 1

\* the ledger is not looked at
ArchOff ==
  /\ archive = {}
  /\ dirs = [p \in Ids |-> {}]
  /\ rootHasCwd = FALSE
  /\ atClear = {}
  /\ consulted = {}
  /\ aphase = "off"

\* the fields load_state puts into a new state
Fields == {"completed_playlists", "partially_downloaded", "playlist_info"}

\* {"completed_playlists": [], "partially_downloaded": {}, "playlist_info": {}}
FreshState == [kind |-> "object", keys |-> Fields, completed |-> << >>]

\* self.state after load_state for the file f: json.loads(content) when the
\* file has content that parses, else the new state
load_state(f) ==
  IF f.kind \in {"absent", "empty", "unparsable"} THEN FreshState ELSE f

\* load_state is not looked at
LoadOff ==
  /\ state_file = [kind |-> "absent", keys |-> {}, completed |-> << >>]
  /\ state = [kind |-> "none", keys |-> {}, completed |-> << >>]
  /\ lpc = "off"

AuxOff == PostOff /\ ScanOff /\ ArchOff /\ LoadOff

\* no process has run yet
SyncIdle ==
  /\ mem = << >>
  /\ pc = "idle"
  /\ remaining = << >>
  /\ idx = 1
  /\ status = << >>
  /\ download_started = FALSE
  /\ error_occurred = FALSE
  /\ error_logs = << >>
  /\ nread = 0
  /\ returncode = NoCode
  /\ alt_started = FALSE
  /\ alt_error = FALSE
  /\ success = FALSE
  /\ saveOk = "none"
  /\ writeFailed = FALSE
  /\ loaded = << >>
  /\ prevEnd = "idle"
  /\ loadedFrom = "none"
  /\ report = NoReport
  /\ prevFailed = {}
  /\ staleCall = FALSE
  /\ ppDone = {}
  /\ okReturned = {}
  /\ marked = {}
  /\ blindMarks = {}
  /\ memAtCall = << >>
  /\ peer = NoPeer

Init ==
  /\ app \in Apps
  /\ download_lyrics \in BOOLEAN
  /\ playlists \in { pl \in SeqsUpTo(Ids, MaxList) : FirstUse(pl) }
  /\ disk \in {FileAbsent} \cup { FileOf(SetToSeq(S)) : S \in SUBSET Ids }
  /\ ResOff
  /\ CleanOff
  /\ AuxOff
  /\ SyncIdle

ResetLocals ==
  /\ download_started' = FALSE
  /\ error_occurred' = FALSE
  /\ error_logs' = << >>
  /\ nread' = 0
  /\ returncode' = NoCode
  /\ alt_started' = FALSE
  /\ alt_error' = FALSE

\* a new run over the items rem, all Pending
BeginRun(m, rem) ==
  /\ mem' = m
  /\ loaded' = m
  /\ prevEnd' = IF pc = "loaded" THEN prevEnd ELSE pc
  /\ loadedFrom' = "none"
  /\ report' = IF app = "cli" /\ playlists # << >> THEN Summary(playlists, rem)
                ELSE NoReport
  /\ prevFailed' = IF pc = "loaded" THEN prevFailed ELSE FailedIds
  /\ remaining' = rem
  /\ idx' = 1
  /\ status' = [i \in 1..Len(rem) |-> "Pending"]
  /\ pc' = IF rem = << >> THEN "done" ELSE "loop"
  /\ staleCall' = FALSE
  /\ okReturned' = {}
  /\ marked' = {}
  /\ blindMarks' = {}
  /\ success' = FALSE
  /\ saveOk' = "none"
  /\ writeFailed' = FALSE
  /\ memAtCall' = m
  /\ ppDone' = {}
  /\ ResetLocals

\* a call begins for the current item
BeginCall(first) ==
  /\ status' = [status EXCEPT ![idx] = "Running"]
  /\ prevFailed' = {}
  /\ staleCall' = (staleCall \/ CurId \in Range(mem))
  /\ memAtCall' = mem
  /\ ppDone' = {}
  /\ saveOk' = "none"
  /\ success' = FALSE
  /\ pc' = first
  /\ ResetLocals

\* the current item is finished with result v; the loop goes on
EndItem(v) ==
  /\ status' = [status EXCEPT ![idx] = IF v THEN "Completed" ELSE "Failed"]
  /\ idx' = idx + 1
  /\ pc' = "loop"
  /\ ResetLocals

\* an exception or an interrupt leaves the run: the call's locals are gone,
\* the items keep the status they had
Leave(how) ==
  /\ pc' = how
  /\ success' = FALSE
  /\ saveOk' = "none"
  /\ ppDone' = {}
  /\ ResetLocals

\* the bookkeeping of adding CurId to the completed set
NoteMark ==
  /\ marked' = marked \cup {CurId}
  /\ blindMarks' = IF returncode = 0 \/ download_started
                     THEN blindMarks ELSE blindMarks \cup {CurId}

\* --------------------------------------------------------- load of the state
\* A process starts and its constructor loads the state file (StateManager()
\* in YouTubeApp.__init__ and in the cached init_engines, load_state in the
\* script's __init__): the completed list of a file that parses, else the
\* empty state, which is written out at once.
LoadState ==
  /\ pc \in Ended
  /\ app = "dash" => pc = "idle"
  /\ \E wok \in BOOLEAN :
       /\ disk' = FileAfterLoad(disk, wok)
       /\ saveOk' = IF disk.kind = "valid" THEN "none"
                     ELSE IF wok THEN "ok" ELSE "failed"
  /\ mem' = LoadedState(disk)
  /\ loaded' = LoadedState(disk)
  /\ loadedFrom' = disk.kind
  /\ prevEnd' = pc
  /\ pc' = "loaded"
  /\ remaining' = << >>
  /\ idx' = 1
  /\ status' = << >>
  /\ report' = NoReport
  /\ prevFailed' = FailedIds
  /\ staleCall' = FALSE
  /\ okReturned' = {}
  /\ marked' = {}
  /\ blindMarks' = {}
  /\ success' = FALSE
  /\ writeFailed' = FALSE
  /\ memAtCall' = LoadedState(disk)
  /\ ppDone' = {}
  /\ ResetLocals
  /\ UNCHANGED cfgVars

\* ------------------------------------------------------------- main.py run
\* run(): the resolved list is filtered against the loaded state and the loop
\* begins (or the run returns at once when nothing was resolved or nothing is
\* pending).
CLI_Start ==
  /\ app = "cli"
  /\ pc = "loaded"
  /\ BeginRun(mem, Remaining(playlists, mem))
  /\ UNCHANGED << cfgVars, disk >>

\* for i, p in enumerate(remaining, 1): success = self.engine.download(p)
Invoke ==
  /\ app \in {"cli", "dash"}
  /\ pc = "loop"
  /\ idx <= Len(remaining)
  /\ BeginCall("mkdir")
  /\ UNCHANGED << cfgVars, disk, mem, idx, runKept, writeFailed, okReturned, marked,
                  blindMarks >>

\* the loop is exhausted
Finish ==
  /\ pc = "loop"
  /\ idx > Len(remaining)
  /\ pc' = "done"
  /\ UNCHANGED << cfgVars, disk, mem, idx, status, locals, success, saveOk, writeFailed,
                  runVars, staleCall, ppDone, okReturned, marked, blindMarks, memAtCall >>

\* the statement after engine.download(p) in the CLI loop
CLI_Handle ==
  /\ app = "cli"
  /\ pc = "ret"
  /\ IF ShouldMark(success)
       THEN /\ mem' = mark_completed(mem, CurId)
            /\ \E wok \in BOOLEAN :
                 /\ disk' = IF wok THEN FileOf(mem') ELSE disk
                 /\ Written(wok)
            /\ NoteMark
       ELSE /\ mem' = AfterFailure(mem, CurId)
            /\ UNCHANGED << disk, saveOk, writeFailed, marked, blindMarks >>
  /\ EndItem(success)
  /\ ppDone' = {}
  /\ UNCHANGED << cfgVars, success, runVars, staleCall, okReturned, memAtCall >>

\* ------------------------------------------------ DownloadEngine.download
Return(v) ==
  /\ pc' = "ret"
  /\ success' = v
  /\ okReturned' = IF v THEN okReturned \cup {CurId} ELSE okReturned

engineFrame == << cfgVars, disk, mem, idx, status, runVars, writeFailed, staleCall,
                  marked, blindMarks, memAtCall >>

\* dest_dir.mkdir(parents=True, exist_ok=True), outside the try block: an
\* OSError leaves download and the caller's loop
D_Mkdir ==
  /\ pc = "mkdir"
  /\ \E ok \in BOOLEAN :
       IF ok THEN pc' = "cover" /\ UNCHANGED << locals, success, saveOk, ppDone >>
       ELSE Leave("crashed")
  /\ UNCHANGED << engineFrame, okReturned >>

\* self.download_cover_image(playlist_info, dest_dir), the first statement
\* after mkdir: failures of a request are contained in the function and its
\* result is not used
D_Cover ==
  /\ pc = "cover"
  /\ pc' = "preflight"
  /\ ppDone' = ppDone \cup {"cover"}
  /\ UNCHANGED << engineFrame, locals, success, saveOk, okReturned >>

\* pre-flight check of the configured executable path
D_Preflight ==
  /\ pc = "preflight"
  /\ \E missing \in BOOLEAN :
       IF missing THEN Return(FALSE)
       ELSE pc' = "popen" /\ UNCHANGED << success, okReturned >>
  /\ UNCHANGED << engineFrame, locals, saveOk, ppDone >>

\* subprocess.Popen(...): an exception is caught by the outer handler
D_Popen ==
  /\ pc = "popen"
  /\ \E ok \in BOOLEAN :
       IF ok THEN pc' = "reading" /\ UNCHANGED << success, okReturned >>
       ELSE Return(FALSE)
  /\ UNCHANGED << engineFrame, locals, saveOk, ppDone >>

\* the body of "for line in process.stdout" for the line l
ReadLine(l) ==
  /\ download_started' = (download_started \/ LineStarts(l))
  /\ error_occurred' = (error_occurred \/ LineIsFatal(l))
  /\ error_logs' = IF LineIsFatal(l) THEN Append(error_logs, l) ELSE error_logs
  /\ alt_started' = (alt_started \/ (~Recoverable(l) /\ LineStarts(l)))
  /\ alt_error' = (alt_error \/ (~Recoverable(l) /\ LineIsFatal(l)))

\* one iteration of "for line in process.stdout"
D_ReadLine ==
  /\ pc = "reading"
  /\ nread < MaxLines
  /\ \E l \in Lines : ReadLine(l)
  /\ nread' = nread + 1
  /\ UNCHANGED << engineFrame, pc, returncode, success, saveOk, ppDone, okReturned >>

\* the stream closes; process.wait() yields the exit code
D_Wait ==
  /\ pc = "reading"
  /\ \E rc \in ExitCodes : returncode' = rc
  /\ nread' = 0
  /\ pc' = "classify"
  /\ UNCHANGED << engineFrame, download_started, error_occurred, error_logs,
                  alt_started, alt_error, success, saveOk, ppDone, okReturned >>

\* success = ...; if not success: ... if error_logs: ... return False
D_Classify ==
  /\ pc = "classify"
  /\ IF ReturnsFailure(Success(returncode, download_started, error_occurred), error_logs)
       THEN Return(FALSE)
       ELSE pc' = "transcode" /\ UNCHANGED << success, okReturned >>
  /\ UNCHANGED << engineFrame, locals, saveOk, ppDone >>

\* what a post-processing step can come to: every file converted, the
\* conversion of some file failed, an exception outside the per-file handlers
StepOutcomes == {"ok", "failed", "raised"}

Escapes_failed(out) == out # "ok"

\* "except subprocess.CalledProcessError" / "except Exception" around the
\* conversion of each file: only an exception raised outside them leaves the
\* step and reaches download's "except Exception: return False"
Escapes(out) == out = "raised"

\* what ppDone records of a step: its outcome, and step itself when the step
\* returned normally
StepRecord(step, out) ==
  (IF out = "ok" THEN {} ELSE {IF out = "failed" THEN step \o "_failed" ELSE "raised"})
    \cup (IF Escapes(out) THEN {} ELSE {step})

\* self.convert_opus_to_mp3(dest_dir): a failed conversion of a file is logged
\* there; an exception outside the per-file handler reaches download's handler
D_Transcode ==
  /\ pc = "transcode"
  /\ \E out \in StepOutcomes :
       /\ ppDone' = ppDone \cup StepRecord("transcode", out)
       /\ IF Escapes(out) THEN Return(FALSE)
          ELSE pc' = "lyrics" /\ UNCHANGED << success, okReturned >>
  /\ UNCHANGED << engineFrame, locals, saveOk >>

\* the VTT -> LRC loop when download_lyrics is set, then "return True"
D_Lyrics ==
  /\ pc = "lyrics"
  /\ IF download_lyrics
       THEN \E out \in StepOutcomes :
              /\ ppDone' = ppDone \cup StepRecord("lyrics", out)
              /\ IF Escapes(out) THEN Return(FALSE) ELSE Return(TRUE)
       ELSE Return(TRUE) /\ UNCHANGED ppDone
  /\ UNCHANGED << engineFrame, locals, saveOk >>

Download ==
  \/ D_Mkdir \/ D_Cover \/ D_Preflight \/ D_Popen \/ D_ReadLine \/ D_Wait
  \/ D_Classify \/ D_Transcode \/ D_Lyrics

\* --------------------------------------------------------- dashboard.py
\* A button of the dashboard: a single playlist (Download / Sync / Re-sync) or
\* all pending ones.  init_engines is cached: the state is loaded once and
\* later buttons work on the state object in memory.
Dash_Start ==
  /\ app = "dash"
  /\ pc \in {"loaded", "done", "crashed", "interrupted", "reset"}
  /\ \E rem \in {Remaining(playlists, mem)} \cup { << p >> : p \in Range(playlists) } :
       BeginRun(mem, rem)
  /\ UNCHANGED << cfgVars, disk >>

\* run_sync after engine.download(p): "if not success: return False"
Dash_Handle ==
  /\ app = "dash"
  /\ pc = "ret"
  /\ IF success
       THEN /\ pc' = "whisper"
            /\ UNCHANGED << mem, idx, status, locals, ppDone >>
       ELSE /\ mem' = AfterFailure(mem, CurId)
            /\ EndItem(FALSE)
            /\ ppDone' = {}
  /\ UNCHANGED << cfgVars, disk, success, saveOk, writeFailed, runVars, staleCall,
                  okReturned, marked, blindMarks, memAtCall >>

\* run_sync: the missing-lyrics step (failures per file are contained, the
\* directory listing is not guarded), then state.mark_completed(p["id"])
Dash_Mark ==
  /\ app = "dash"
  /\ pc = "whisper"
  /\ \E out \in {"ok", "raised"} :
       IF out = "raised"
         THEN /\ Leave("crashed")
              /\ UNCHANGED << mem, disk, writeFailed, marked, blindMarks, idx, status >>
         ELSE /\ mem' = mark_completed(mem, CurId)
              /\ \E wok \in BOOLEAN :
                   /\ disk' = IF wok THEN FileOf(mem') ELSE disk
                   /\ Written(wok)
              /\ NoteMark
              /\ EndItem(TRUE)
              /\ ppDone' = {}
              /\ UNCHANGED success
  /\ UNCHANGED << cfgVars, runVars, staleCall, okReturned, memAtCall >>

\* ------------------------------ youtube_music_downloader_with_ytdlp.py
\* run() of the script: the filter against the loaded state, the loop.
Script_Start ==
  /\ app = "script"
  /\ pc = "loaded"
  /\ BeginRun(mem, ScriptRemaining(playlists, mem))
  /\ UNCHANGED << cfgVars, disk >>

\* download_playlist(playlist): the "already completed" check on entry
Script_Call ==
  /\ app = "script"
  /\ pc = "loop"
  /\ idx <= Len(remaining)
  /\ IF ScriptSkip(mem, CurId)
       THEN /\ EndItem(TRUE)
            /\ prevFailed' = {}
            /\ UNCHANGED << success, saveOk, staleCall, ppDone, memAtCall >>
       ELSE /\ BeginCall("s_mkdir")
            /\ UNCHANGED idx
  /\ UNCHANGED << cfgVars, disk, mem, runKept, writeFailed, okReturned, marked,
                  blindMarks >>

scriptFrame == << cfgVars, runVars, staleCall, memAtCall >>

\* playlist_dir.mkdir(parents=True, exist_ok=True), before the try block
S_Mkdir ==
  /\ pc = "s_mkdir"
  /\ \E ok \in BOOLEAN :
       IF ok THEN pc' = "s_popen" /\ UNCHANGED << locals, success, saveOk, ppDone >>
       ELSE Leave("crashed")
  /\ UNCHANGED << scriptFrame, disk, mem, idx, status, writeFailed, okReturned, marked,
                  blindMarks >>

\* subprocess.Popen(...): an exception reaches "except Exception: return False"
S_Popen ==
  /\ pc = "s_popen"
  /\ \E ok \in BOOLEAN :
       IF ok THEN pc' = "s_reading" /\ UNCHANGED << idx, status, locals >>
       ELSE EndItem(FALSE)
  /\ UNCHANGED << scriptFrame, disk, mem, success, saveOk, writeFailed, ppDone,
                  okReturned, marked, blindMarks >>

\* one iteration of "for line in process.stdout"
S_ReadLine ==
  /\ pc = "s_reading"
  /\ nread < MaxLines
  /\ \E l \in ScriptLines : download_started' = (download_started \/ ScriptLineStarts(l))
  /\ nread' = nread + 1
  /\ UNCHANGED << scriptFrame, disk, mem, pc, idx, status, error_occurred, error_logs,
                  returncode, alt_started, alt_error, success, saveOk, writeFailed,
                  ppDone, okReturned, marked, blindMarks >>

\* the stream closes (or a decoding error ends the loop); process.wait()
S_Wait ==
  /\ pc = "s_reading"
  /\ \E rc \in ExitCodes : returncode' = rc
  /\ nread' = 0
  /\ pc' = "s_decide"
  /\ UNCHANGED << scriptFrame, disk, mem, idx, status, download_started, error_occurred,
                  error_logs, alt_started, alt_error, success, saveOk, writeFailed,
                  ppDone, okReturned, marked, blindMarks >>

\* the branch after process.wait(): append the id and save when the run counts
\* as completed, or as "completed with errors" after some download started
S_Decide ==
  /\ pc = "s_decide"
  /\ IF ScriptOk(returncode, download_started) \/ download_started
       THEN /\ mem' = Append(mem, CurId)
            /\ NoteMark
            /\ success' = ScriptOk(returncode, download_started)
            /\ pc' = "s_open"
            /\ UNCHANGED << idx, status, locals >>
       ELSE /\ EndItem(FALSE)
            /\ UNCHANGED << mem, marked, blindMarks, success >>
  /\ UNCHANGED << scriptFrame, disk, saveOk, writeFailed, ppDone, okReturned >>

SaveCaught_raises == "crashed"

\* save_state, "except Exception as e": the failure is printed and save_state
\* returns to download_playlist, which goes on to its return statement
SaveCaught == "s_ret"

\* save_state: open(self.state_file, "w") empties the file; a failure to open
\* is caught and printed
S_Open ==
  /\ pc = "s_open"
  /\ \E ok \in BOOLEAN :
       IF ok THEN disk' = FileTruncated /\ pc' = "s_dump" /\ UNCHANGED << saveOk, writeFailed >>
       ELSE disk' = disk /\ pc' = SaveCaught /\ Written(FALSE)
  /\ UNCHANGED << scriptFrame, mem, idx, status, locals, success, ppDone, okReturned,
                  marked, blindMarks >>

\* save_state: json.dump(self.state, f) writes the content; a failure is
\* caught and printed, the file keeps what had been written
S_Dump ==
  /\ pc = "s_dump"
  /\ \E ok \in BOOLEAN :
       IF ok THEN disk' = FileOf(mem) /\ Written(TRUE) /\ pc' = "s_ret"
       ELSE disk' = disk /\ Written(FALSE) /\ pc' = SaveCaught
  /\ UNCHANGED << scriptFrame, mem, idx, status, locals, success, ppDone, okReturned,
                  marked, blindMarks >>

\* download_playlist returns; run() goes to the next playlist
S_Return ==
  /\ pc = "s_ret"
  /\ okReturned' = IF success THEN okReturned \cup {CurId} ELSE okReturned
  /\ EndItem(success)
  /\ UNCHANGED << scriptFrame, disk, mem, success, saveOk, writeFailed, ppDone, marked,
                  blindMarks >>

ScriptDownload ==
  \/ S_Mkdir \/ S_Popen \/ S_ReadLine \/ S_Wait \/ S_Decide \/ S_Open \/ S_Dump
  \/ S_Return

\* ------------------------------------------------------------ interruption
\* KeyboardInterrupt is raised wherever the process is; no handler below
\* __main__ catches it ("except Exception" does not), and __main__ exits
Interrupt ==
  /\ app \in {"cli", "script"}
  /\ pc \notin Ended
  /\ Leave("interrupted")
  /\ UNCHANGED << cfgVars, disk, mem, idx, status, runVars, writeFailed, staleCall,
                  okReturned, marked, blindMarks, memAtCall >>

Next ==
  \/ LoadState
  \/ CLI_Start \/ Invoke \/ Finish \/ CLI_Handle
  \/ Download
  \/ Dash_Start \/ Dash_Handle \/ Dash_Mark
  \/ Script_Start \/ Script_Call \/ ScriptDownload
  \/ Interrupt

Spec == Init /\ [][Next]_vars

\* ------------------------------------------- a second dashboard session
\* init_engines is an st.cache_resource: every browser session of the
\* dashboard process runs main() in a thread of its own and gets the same
\* engine and the same state object; run_sync takes no lock.
\* Another session presses a sync button: run_sync(p) -> engine.download(p)
\* has started its downloader subprocess.
Peer_Begin ==
  /\ app = "dash"
  /\ pc # "idle"
  /\ peer = NoPeer
  /\ \E p \in Range(playlists) : peer' = p
  /\ UNCHANGED << inputVars, resVars, cleanVars, auxVars, disk, mem, pc, idx, status,
                  locals, success, saveOk, writeFailed, runVars, staleCall, ppDone,
                  okReturned, marked, blindMarks, memAtCall >>

\* The other session's subprocess ends and its run_sync goes on: on success
\* it marks the id in the shared state object.
Peer_End ==
  /\ peer # NoPeer
  /\ \E ok \in BOOLEAN :
       IF ok
         THEN /\ mem' = mark_completed(mem, peer)
              /\ \E wok \in BOOLEAN : disk' = IF wok THEN FileOf(mem') ELSE disk
         ELSE UNCHANGED << mem, disk >>
  /\ peer' = NoPeer
  /\ UNCHANGED << inputVars, resVars, cleanVars, auxVars, pc, idx, status, locals,
                  success, saveOk, writeFailed, runVars, staleCall, ppDone, okReturned,
                  marked, blindMarks, memAtCall >>

NextPeer == Next \/ Peer_Begin \/ Peer_End

SpecPeer == Init /\ [][NextPeer]_vars

\* ------------------------------------------- the Reset Download State button
\* if os.path.exists("download_state.json"): os.remove(...); st.rerun().  The
\* file is removed; the state object init_engines cached is not touched and
\* the rerun gets the same object.  An exception of os.remove ends the script
\* run with nothing changed.  pc "reset": the render that follows the removal.
Dash_Reset ==
  /\ app = "dash"
  /\ pc \in {"loaded", "done", "crashed"}
  /\ disk.kind # "absent"
  /\ \E ok \in BOOLEAN :
       IF ok THEN disk' = FileAbsent /\ pc' = "reset"
       ELSE UNCHANGED << disk, pc >>
  /\ UNCHANGED << cfgVars, mem, idx, status, locals, success, saveOk, writeFailed,
                  runVars, staleCall, ppDone, okReturned, marked, blindMarks,
                  memAtCall >>

NextReset == Next \/ Dash_Reset

SpecReset == Init /\ [][NextReset]_vars

\* ------------------------------------------------- resolution of the input
\* main.py, step 1 of run(): the explicit URLs of the configuration, or the
\* playlist file.  One URL or line is any text of up to MaxUrl tokens; longer
\* lists are made of the sample URLs and lines.
InitResolve ==
  /\ app = "cli"
  /\ download_lyrics = FALSE
  /\ playlists = << >>
  /\ disk = FileAbsent
  /\ SyncIdle
  /\ CleanOff
  /\ AuxOff
  /\ rmethod \in {"urls", "file", "channel"}
  /\ rinput \in IF rmethod = "channel" THEN SeqsUpTo(Entries, MaxList)
               ELSE { << t >> : t \in Texts }
                      \cup SeqsUpTo(IF rmethod = "urls" THEN SampleUrls ELSE SampleLines,
                                    MaxList)
  /\ rpc = "idle"
  /\ rk = 1
  /\ urls = << >>
  /\ cache \in {EmptyCache, SeedCache}
  /\ calls = << >>
  /\ resolved = << >>

\* playlists = [get_playlist_info(url) for url in config.playlist_urls], or
\* the entry of from_file, or the listing query of from_channel (a failure of
\* the query or of its parsing is caught: return [])
R_Begin ==
  /\ rpc = "idle"
  /\ IF rmethod = "file" THEN rpc' = "collect" /\ urls' = << >>
     ELSE IF rmethod = "urls" THEN rpc' = "resolve" /\ urls' = rinput
     ELSE \E ok \in BOOLEAN : rpc' = (IF ok THEN "entries" ELSE "done") /\ urls' = << >>
  /\ rk' = 1
  /\ UNCHANGED << syncVars, cleanVars, auxVars, rmethod, rinput, cache, calls, resolved >>

\* from_channel: one iteration of "for entry in entries"
R_Entry ==
  /\ rpc = "entries"
  /\ rk <= Len(rinput)
  /\ LET e == rinput[rk]
     IN IF e.id = << >>
          THEN UNCHANGED << cache, resolved >>
          ELSE /\ cache' = cache_info(cache, e.id, ChannelInfo(e))
               /\ resolved' = Append(resolved, ChannelInfo(e))
  /\ rk' = rk + 1
  /\ UNCHANGED << syncVars, cleanVars, auxVars, rmethod, rinput, rpc, urls, calls >>

\* from_channel: return playlists
R_Listed ==
  /\ rpc = "entries"
  /\ rk > Len(rinput)
  /\ rpc' = "done"
  /\ UNCHANGED << syncVars, cleanVars, auxVars, rmethod, rinput, rk, urls, cache, calls,
                  resolved >>

\* from_file: one iteration of "for line in f"
R_CollectLine ==
  /\ rpc = "collect"
  /\ rk <= Len(rinput)
  /\ urls' = urls \o LineUrls(rinput[rk])
  /\ rk' = rk + 1
  /\ UNCHANGED << syncVars, cleanVars, auxVars, rmethod, rinput, rpc, cache, calls, resolved >>

\* from_file: the file is read, the URLs are resolved next
R_Collected ==
  /\ rpc = "collect"
  /\ rk > Len(rinput)
  /\ rpc' = "resolve"
  /\ rk' = 1
  /\ UNCHANGED << syncVars, cleanVars, auxVars, rmethod, rinput, urls, cache, calls, resolved >>

\* get_playlist_info(url): the cached descriptor if there is one, else the
\* metadata query; every returned descriptor is cached
R_Call ==
  /\ rpc = "resolve"
  /\ rk <= Len(urls)
  /\ LET url == urls[rk]
         id == extract_id(url)
         cached == get_cached_info(cache, id)
     IN IF cached # None
          THEN /\ calls' = Append(calls, [url |-> url, id |-> id, out |-> "cached",
                                          ret |-> cached])
               /\ cache' = cache
          ELSE \E out \in QueryOutcomes :
                 LET info == InfoOf(id, url, out)
                 IN /\ calls' = Append(calls, [url |-> url, id |-> id, out |-> out,
                                               ret |-> info])
                    /\ cache' = IF info # None THEN cache_info(cache, id, info)
                                ELSE cache
  /\ rk' = rk + 1
  /\ UNCHANGED << syncVars, cleanVars, auxVars, rmethod, rinput, rpc, urls, resolved >>

\* playlists = [p for p in playlists if p] / "if info: results.append(info)"
R_End ==
  /\ rpc = "resolve"
  /\ rk > Len(urls)
  /\ resolved' = SelectSeq([i \in 1..Len(calls) |-> calls[i].ret], LAMBDA r : r # None)
  /\ rpc' = "done"
  /\ UNCHANGED << syncVars, cleanVars, auxVars, rmethod, rinput, rk, urls, cache, calls >>

NextResolve ==
  \/ R_Begin \/ R_CollectLine \/ R_Collected \/ R_Call \/ R_End
  \/ R_Entry \/ R_Listed

SpecResolve == InitResolve /\ [][NextResolve]_vars

\* ------------------------------------------------ a call of clean_filename
\* dest_dir = root_path / self.clean_filename(playlist_info["title"]), for a
\* title of up to MaxRuns runs and either OS family
InitClean ==
  /\ app = "cli"
  /\ download_lyrics = FALSE
  /\ playlists = << >>
  /\ disk = FileAbsent
  /\ SyncIdle
  /\ ResOff
  /\ AuxOff
  /\ cname \in SeqsUpTo(Runs, MaxRuns)
  /\ cos \in {"windows", "linux"}
  /\ cout = << >>
  /\ cpc = "in"

C_Clean ==
  /\ cpc = "in"
  /\ cout' = clean_filename(cname, cos)
  /\ cpc' = "out"
  /\ UNCHANGED << syncVars, resVars, auxVars, cname, cos >>

NextClean == C_Clean

SpecClean == InitClean /\ [][NextClean]_vars

\* ------------------------------------- post-processing of one download call
\* DownloadEngine.download after the classification let the call go on: the
\* conversion of the audio files, then (download_lyrics) of the caption files,
\* for a destination directory holding up to MaxFiles files of each kind.
InitPost ==
  /\ app \in {"cli", "dash"}
  /\ download_lyrics \in BOOLEAN
  /\ playlists = << >>
  /\ disk = FileAbsent
  /\ SyncIdle
  /\ ResOff
  /\ CleanOff
  /\ ScanOff
  /\ ArchOff
  /\ LoadOff
  /\ \E n, m \in 0..MaxFiles : source = 1..n /\ captions = 1..m
  /\ opus_files = << >>
  /\ vtt_files = << >>
  /\ ffmpeg = [f \in Files |-> "none"]
  /\ lrc = [f \in Files |-> "none"]
  /\ pk = 1
  /\ ppc = "list"
  /\ pret = "none"

postFrame == << syncVars, resVars, cleanVars, scanVars, archVars, loadVars >>

\* an exception outside the per-file handlers: download's "except Exception"
\* logs it and returns False
P_Raise ==
  /\ ppc' = "returned"
  /\ pret' = "False"

\* convert_opus_to_mp3: opus_files = list(dest_dir.glob("*.opus")); the
\* listing is outside every handler of the function
P_List ==
  /\ ppc = "list"
  /\ \E ok \in BOOLEAN :
       IF ok THEN /\ opus_files' = SetToSeq(source)
                  /\ ppc' = "opus"
                  /\ UNCHANGED pret
       ELSE P_Raise /\ UNCHANGED opus_files
  /\ pk' = 1
  /\ UNCHANGED << postFrame, source, captions, vtt_files, ffmpeg, lrc >>

\* one iteration of "for opus_file in opus_files": run the transcoder, then
\* delete the source; an unlink that fails is caught like any other exception
P_Convert ==
  /\ ppc = "opus"
  /\ pk <= Len(opus_files)
  /\ \E out \in ConvOutcomes, gone \in BOOLEAN :
       /\ ffmpeg' = [ffmpeg EXCEPT ![opus_files[pk]] = out]
       /\ source' = IF Unlinks(out) /\ gone THEN source \ {opus_files[pk]} ELSE source
       /\ pk' = AfterFile(opus_files, pk, out)
  /\ UNCHANGED << postFrame, captions, opus_files, vtt_files, lrc, ppc, pret >>

\* convert_opus_to_mp3 returns (at once when there is no audio file); the
\* caption files are listed when download_lyrics is set, else "return True"
P_Converted ==
  /\ ppc = "opus"
  /\ pk > Len(opus_files)
  /\ IF download_lyrics
       THEN \E ok \in BOOLEAN :
              IF ok THEN /\ vtt_files' = SetToSeq(captions)
                         /\ ppc' = "vtt"
                         /\ UNCHANGED pret
              ELSE P_Raise /\ UNCHANGED vtt_files
       ELSE /\ ppc' = "returned"
            /\ pret' = "True"
            /\ UNCHANGED vtt_files
  /\ pk' = 1
  /\ UNCHANGED << postFrame, source, captions, opus_files, ffmpeg, lrc >>

\* one iteration of "for vtt_file in dest_dir.glob("*.vtt")": vtt_to_lrc in
\* its own try / except Exception
P_Lrc ==
  /\ ppc = "vtt"
  /\ pk <= Len(vtt_files)
  /\ \E out \in {"ok", "failed"} :
       /\ lrc' = [lrc EXCEPT ![vtt_files[pk]] = out]
       /\ pk' = AfterFile(vtt_files, pk, out)
  /\ UNCHANGED << postFrame, source, captions, opus_files, vtt_files, ffmpeg, ppc, pret >>

\* the caption loop is exhausted: "return True"
P_Return ==
  /\ ppc = "vtt"
  /\ pk > Len(vtt_files)
  /\ ppc' = "returned"
  /\ pret' = "True"
  /\ UNCHANGED << postFrame, source, captions, opus_files, vtt_files, ffmpeg, lrc, pk >>

NextPost == P_List \/ P_Convert \/ P_Converted \/ P_Lrc \/ P_Return

SpecPost == InitPost /\ [][NextPost]_vars

\* ------------------------------------------ the output loop, line by line
\* DownloadEngine.download, "for line in process.stdout", for a downloader
\* that prints the lines of stream (up to MaxLines of them).
InitScan ==
  /\ app \in {"cli", "dash"}
  /\ download_lyrics = FALSE
  /\ playlists = << >>
  /\ disk = FileAbsent
  /\ SyncIdle
  /\ ResOff
  /\ CleanOff
  /\ PostOff
  /\ ArchOff
  /\ LoadOff
  /\ stream \in SeqsUpTo(Lines, MaxLines)
  /\ sk = 1

\* one iteration of the loop, for the next line of the stream
L_Read ==
  /\ sk <= Len(stream)
  /\ ReadLine(stream[sk])
  /\ sk' = sk + 1
  /\ UNCHANGED << inputVars, peer, resVars, cleanVars, postVars, archVars, loadVars,
                  stream, disk, mem, pc, idx, status, runVars, nread, returncode, success, saveOk,
                  writeFailed, staleCall, ppDone, okReturned, marked, blindMarks,
                  memAtCall >>

NextScan == L_Read

SpecScan == InitScan /\ [][NextScan]_vars

\* ------------------------------------------- the download-archive ledger
\* The dashboard's process from its first use: download calls (run_sync ->
\* engine.download) and the Clear Download Archives button.
\* The tracks of the playlist behind playlist_info["url"]: one of its own and
\* track 0, which every playlist has
TracksOf(p) == {0, p}

InitArchive ==
  /\ app = "dash"
  /\ download_lyrics = FALSE
  /\ playlists \in { pl \in SeqsUpTo(Ids, MaxList) : FirstUse(pl) /\ pl # << >> }
  /\ disk = FileAbsent
  /\ SyncIdle
  /\ ResOff
  /\ CleanOff
  /\ PostOff
  /\ ScanOff
  /\ LoadOff
  /\ archive = {}
  /\ dirs = [p \in Ids |-> {}]
  /\ rootHasCwd \in BOOLEAN
  /\ atClear = {}
  /\ consulted = {}
  /\ aphase = "fresh"

archFrame == << inputVars, peer, pc, idx, status, locals, success, saveOk, writeFailed,
               runVars, staleCall, ppDone, okReturned, marked, blindMarks, memAtCall,
               resVars, cleanVars, postVars, scanVars, loadVars, rootHasCwd >>

\* the files Path(root_path).rglob("download_archive.txt") yields: the ledger
\* of the download calls only when the working directory lies under root_path
Found == IF rootHasCwd /\ archive # {} THEN {"cwd"} ELSE {}

\* run_sync(p): engine.download(p) and, when it returns True, mark_completed.
\* archive_file = "download_archive.txt" is passed to the downloader as a
\* relative path, which the subprocess resolves against the working directory
\* of the process, for every playlist.  The downloader skips the tracks the
\* ledger lists, printing "has already been recorded in the archive" for each,
\* transfers the tracks got of the others into dest_dir (--output) and adds
\* them to the ledger; a track it fails to transfer gives an "ERROR:" line and
\* the exit code 1 (--ignore-errors).  post: no exception in post-processing
\* and in the missing-lyrics step.
A_Download ==
  /\ aphase \in {"fresh", "cleared", "next"}
  /\ \E p \in Range(playlists), post \in BOOLEAN :
       \E got \in SUBSET (TracksOf(p) \ archive) :
         LET skipped == TracksOf(p) \cap archive
             failed == (TracksOf(p) \ archive) \ got
             started == skipped # {} \/ got # {}
             rc == IF failed = {} THEN 0 ELSE 1
             ok == Success(rc, started, failed # {})
             result == ~ReturnsFailure(ok, SetToSeq(failed)) /\ post
         IN /\ archive' = archive \cup got
            /\ dirs' = [dirs EXCEPT ![p] = @ \cup got]
            /\ mem' = IF result THEN mark_completed(mem, p) ELSE mem
            /\ \E wok \in BOOLEAN :
                 disk' = IF result /\ wok THEN FileOf(mem') ELSE disk
  /\ consulted' = archive
  /\ aphase' = IF aphase = "cleared" THEN "next" ELSE "fresh"
  /\ UNCHANGED << archFrame, atClear >>

\* the Clear Download Archives button: clear_download_archives(root_path)
\* unlinks the files found; an exception is caught and reported
A_Clear ==
  /\ aphase \in {"fresh", "cleared", "next"}
  /\ \E ok \in BOOLEAN :
       archive' = IF "cwd" \in Found /\ ok THEN {} ELSE archive
  /\ atClear' = archive
  /\ consulted' = {}
  /\ aphase' = "cleared"
  /\ UNCHANGED << archFrame, dirs, mem, disk >>

NextArchive == A_Download \/ A_Clear

SpecArchive == InitArchive /\ [][NextArchive]_vars

\* ------------------------------------------------ the script's load_state
\* The script starts: __init__ calls load_state, then __main__ calls run().
\* The state file is absent, empty (or blank), not JSON, a JSON array, or a
\* JSON object with any of the three fields and "channel_info" as its keys
\* and, when it has the key, a completed_playlists list.
InitLoad ==
  /\ app = "script"
  /\ download_lyrics = FALSE
  /\ playlists = << >>
  /\ disk = FileAbsent
  /\ SyncIdle
  /\ ResOff
  /\ CleanOff
  /\ PostOff
  /\ ScanOff
  /\ ArchOff
  /\ state_file \in
       [kind : {"absent", "empty", "unparsable", "array"}, keys : {{}},
        completed : {<< >>}]
       \cup { f \in [kind : {"object"}, keys : SUBSET (Fields \cup {"channel_info"}),
                     completed : { pl \in SeqsUpTo(Ids, MaxList) : FirstUse(pl) }] :
                "completed_playlists" \notin f.keys => f.completed = << >> }
  /\ state = [kind |-> "none", keys |-> {}, completed |-> << >>]
  /\ lpc = "init"

\* load_state: open and read the file when it exists (an OSError of open is
\* not among the exceptions caught), json.loads of its content; the new state
\* is saved when the file is absent, empty or does not parse, and wok is
\* whether that write goes through (save_state catches its failure)
J_Load ==
  /\ lpc = "init"
  /\ \E readable, wok \in BOOLEAN :
       IF state_file.kind # "absent" /\ ~readable
         THEN lpc' = "load_raised" /\ UNCHANGED << state, state_file >>
         ELSE /\ state' = load_state(state_file)
              /\ state_file' = IF load_state(state_file) # state_file /\ wok
                                  THEN FreshState ELSE state_file
              /\ lpc' = "loaded"
  /\ UNCHANGED << syncVars, resVars, cleanVars, postVars, scanVars, archVars >>

\* run(): print(... self.state['completed_playlists'] ...), its first access
\* of the state: a KeyError when the key is missing, a TypeError when the
\* state is a list; __main__ reports "Fatal error" and exits
J_Run ==
  /\ lpc = "loaded"
  /\ lpc' = IF state.kind = "object" /\ "completed_playlists" \in state.keys
              THEN "running" ELSE "run_raised"
  /\ UNCHANGED << syncVars, resVars, cleanVars, postVars, scanVars, archVars,
                  state_file, state >>

NextLoad == J_Load \/ J_Run

SpecLoad == InitLoad /\ [][NextLoad]_vars

\* ================================================================ properties
Engine == app \in {"cli", "dash"}

\* the items of the current run whose processing has begun
Begun == { i \in DOMAIN status : status[i] # "Pending" }

\* the post-processing phase of the current call has been gone through
PostProcessed == "transcode" \in ppDone /\ (download_lyrics => "lyrics" \in ppDone)

\* a state write of the current item has been carried out and its call is over
MarkReturned == saveOk # "none" /\ pc \in {"loop", "s_ret", "done"}

\* C1: in the CLI loop and in run_sync an id enters the completed set only
\* after the download call for it returned True, which happens only after the
\* transcoding step (and, when lyrics are requested, the caption conversion)
\* was gone through; after a call that returned False the completed set is the
\* one the item started with.
C1_MarkOnlyAfterSuccess ==
  Engine =>
    /\ marked \subseteq okReturned
    /\ Range(mem) \subseteq Range(loaded) \cup okReturned
    /\ (pc \in {"ret", "whisper"} /\ success) => PostProcessed
    /\ (pc = "loop" /\ idx > 1 /\ status[idx - 1] = "Failed") => mem = memAtCall

C1_Witness ==
  /\ Engine
  /\ pc = "loop"
  /\ \E i, j \in DOMAIN status :
       /\ status[i] = "Failed"
       /\ status[j] = "Completed"
       /\ remaining[j] \in marked
       /\ remaining[i] \notin Range(mem)

\* C2: whenever download returns after process.wait() (no post-processing step
\* having raised), it returns True exactly if
\* exitCode = 0 or (started and not fatalError).
C2_SuccessIffPredicate ==
  (Engine /\ pc = "ret" /\ returncode # NoCode /\ "raised" \notin ppDone)
    => (success <=> (returncode = 0 \/ (download_started /\ ~error_occurred)))

\* C3: every id a run adds to the completed set is added after a downloader
\* invocation that exited with code 0 or emitted a started marker.
C3_NoMarkWithoutProgress == blindMarks = {}

\* C4: the CLI run never invokes the downloader for a playlist whose id is in
\* the completed set at that moment.
C4_NoCallForCompleted == app = "cli" => ~staleCall

\* C5 (as stated): a CLI run that follows a run which went through its whole
\* loop, on the same resolved list, performs no downloader invocation.
C5_SecondRunInvokesNothing ==
  (app = "cli" /\ prevEnd = "done") => Begun = {}

\* C5 (amended): a later CLI run on the same resolved list invokes the
\* downloader only for playlists whose id is not in the persisted completed set
\* it loaded, hence not at all when every resolved id is recorded there.
C5_SecondRunSkipsRecorded ==
  (app = "cli" /\ prevEnd # "idle") =>
    /\ \A i \in Begun : remaining[i] \notin Range(loaded)
    /\ Range(playlists) \subseteq Range(loaded) => Begun = {}

C5_Witness ==
  /\ app = "cli"
  /\ prevEnd = "done"
  /\ pc = "done"
  /\ Begun # {}
  /\ Len(remaining) < Len(playlists)

\* C6: when a CLI run is over (loop exhausted, or left by an exception), every
\* item other than the one being processed at that moment is Completed or
\* Failed.
C6_BatchNeverAborted ==
  (app = "cli" /\ pc \in {"done", "crashed"}) =>
    \A i \in DOMAIN status : (pc = "crashed" /\ i = idx) \/ status[i] \in Terminal

\* C7: the state file is never in a truncated, unparsable condition.
C7_StateFileAlwaysParsable == disk.kind # "truncated"

\* C8: as long as no state write of the run was reported as failed, the
\* persisted completed set contains the id of every item that has finished
\* successfully.
C8_FinishedItemsPersisted ==
  ~writeFailed =>
    \A i \in DOMAIN status :
      status[i] = "Completed" => remaining[i] \in Range(LoadedState(disk))

\* C9: a run ended by an interrupt leaves no item Running.
C9_InterruptLeavesNoRunningItem ==
  pc = "interrupted" => \A i \in DOMAIN status : status[i] # "Running"

\* C10 (as stated): no id occurs twice in the completed set, and once a mark
\* has returned the state file holds the in-memory completed set.
C10_MarkIdempotentPersisted ==
  /\ NoDup(mem)
  /\ MarkReturned => disk = FileOf(mem)

\* C10 (amended): no id occurs twice in the completed set, and once a mark has
\* returned the state file holds the in-memory completed set unless the write
\* failed (the failure is swallowed and the id stays in memory only).
C10_MarkIdempotentPersistedUnlessWriteFails ==
  /\ NoDup(mem)
  /\ (MarkReturned /\ saveOk = "ok") => disk = FileOf(mem)
  /\ (MarkReturned /\ saveOk = "failed" /\ marked # {}) => marked \subseteq Range(mem)

C10_Witness ==
  /\ app = "script"
  /\ pc = "loop"
  /\ idx = 3
  /\ remaining[1] = remaining[2]
  /\ status[1] = "Completed"
  /\ status[2] = "Completed"
  /\ saveOk = "ok"
  /\ disk = FileOf(mem)

\* the state has just been loaded
JustLoaded == pc = "loaded"

InFlight == pc \in {"reading", "s_reading"}

\* C12: the items of a run are processed one after the other in list order
\* (everything before the current item is Completed or Failed, a Completed one
\* of the CLI or dashboard is in the completed set, everything after it is
\* Pending), and at no time are two downloader subprocesses in flight, the
\* dashboard's sessions sharing the cached engine and state included.
C12_OneDownloaderAtATime ==
  /\ \A i \in DOMAIN status :
       /\ i < idx => status[i] \in Terminal
       /\ i > idx => status[i] = "Pending"
       /\ (Engine /\ status[i] = "Completed") => remaining[i] \in Range(mem)
  /\ ~(InFlight /\ peer # NoPeer)

\* C13: when a CLI run over a non-empty resolved list has gone through its
\* loop, it has reported the counts total, already-completed, newly-completed
\* and failed, with total = already-completed + newly-completed + failed; when
\* every resolved playlist was completed already, these are N, N, 0, 0 and no
\* item was begun.
C13_EndOfRunCounts ==
  (app = "cli" /\ pc = "done" /\ playlists # << >>) =>
    /\ {"total", "synced", "newly", "failed"} \subseteq DOMAIN report
    /\ report.total = report.synced + report.newly + report.failed
    /\ report.total = Len(playlists)
    /\ report.newly = Cardinality({ i \in DOMAIN status : status[i] = "Completed" })
    /\ report.failed = Cardinality({ i \in DOMAIN status : status[i] = "Failed" })
    /\ Range(playlists) \subseteq Range(loaded) =>
         (report.synced = Len(playlists) /\ Begun = {})

\* C14: get_playlist_info never returns None, whatever the query comes to,
\* and the list resolved from the explicit URLs has one descriptor per
\* configured URL.
C14_ResolutionNeverDrops ==
  /\ \A i \in DOMAIN calls : calls[i].ret # None
  /\ (rmethod = "urls" /\ rpc = "done") => Len(resolved) = Len(rinput)

\* C15: whenever the metadata query of a get_playlist_info call fails (nonzero
\* exit, or output that cannot be processed), the call returns a descriptor
\* with a non-empty id and the title "Playlist_" followed by that id.
C15_FallbackDescriptor ==
  \A i \in DOMAIN calls :
    calls[i].out \in {"error", "garbage"} =>
      /\ calls[i].ret # None
      /\ calls[i].ret.id # << >>
      /\ calls[i].ret.title = << "Playlist_" >> \o calls[i].ret.id

\* C16: after a get_playlist_info call for some id, every later call for a
\* URL with the same extracted id makes no query and returns what the earlier
\* call returned; no id is queried more than once.
C16_Memoized ==
  /\ \A i, j \in DOMAIN calls :
       (i < j /\ calls[i].id = calls[j].id) =>
         (calls[j].out = "cached" /\ calls[j].ret = calls[i].ret)
  /\ \A i, j \in DOMAIN calls :
       (calls[i].id = calls[j].id /\ calls[i].out # "cached" /\ calls[j].out # "cached")
         => i = j

\* a line that is neither blank nor a comment and carries a list= parameter
\* with a value, or is a bare id (no list= in it) beginning with PL / OL
TokenLine(line) ==
  LET l == strip(line)
  IN /\ l # << >>
     /\ ~StartsWith(l, "#")
     /\ \/ ListMatches(l, {"&", " "}) # {}
        \/ StartsWith(l, "PL") /\ ~Contains(l, "list=")

BlankOrComment(line) == strip(line) = << >> \/ StartsWith(strip(line), "#")

\* the lines of the file that from_file turns into a URL, in file order
Yielding == SelectSeq(rinput, LAMBDA line : LineUrls(line) # << >>)

\* C17: from_file turns every line with a playlist token into a URL and no
\* blank or comment line; when it is over, the URLs have been resolved in
\* file order and every line with a playlist token has its descriptor in the
\* result.
C17_FromFileOnePerLine ==
  rmethod = "file" =>
    /\ \A k \in DOMAIN rinput :
         /\ TokenLine(rinput[k]) => Len(LineUrls(rinput[k])) = 1
         /\ BlankOrComment(rinput[k]) => LineUrls(rinput[k]) = << >>
    /\ rpc = "done" =>
         /\ Len(calls) = Len(Yielding)
         /\ \A j \in DOMAIN calls :
              /\ calls[j].url = LineUrls(Yielding[j])[1]
              /\ TokenLine(Yielding[j]) => calls[j].ret # None
         /\ resolved = [j \in DOMAIN calls |-> calls[j].ret]

\* C18: whatever the title and the OS family, the string clean_filename
\* returns has at most 200 characters, none of them forbidden on that OS, and
\* neither begins nor ends with a space or a dot.
C18_CleanFilenameSafe ==
  cpc = "out" =>
    /\ StrLen(cout) <= NameCap
    /\ \A i \in DOMAIN cout : cout[i].ch \notin Forbidden(cos)
    /\ cout # << >> =>
         /\ cout[1].ch \notin {" ", "."}
         /\ cout[Len(cout)].ch \notin {" ", "."}

\* C19: a line reporting "video unavailable" or "private video" is never in
\* the error list and never sets the fatal-error flag (the flag is the one the
\* stream without such lines sets), and after process.wait() download takes
\* the failure exit exactly if it takes it for the stream without such lines.
C19_UnavailableNeverFatal ==
  Engine =>
    /\ \A k \in DOMAIN error_logs : ~error_logs[k].unavailable
    /\ error_occurred <=> alt_error
    /\ pc = "classify" =>
         (ReturnsFailure(Success(returncode, download_started, error_occurred), error_logs)
            <=> (~Success(returncode, alt_started, alt_error) /\ alt_error))

C19_Witness ==
  /\ Engine
  /\ pc = "ret"
  /\ success
  /\ returncode = 1
  /\ download_started
  /\ ~alt_started
  /\ ~error_occurred

\* C20: when download has returned after a run that its classification did
\* not fail, it has returned True whatever the conversions of the audio files
\* and of the caption files came to (short of an exception raised outside the
\* conversion of a file).
C20_PostProcessingNeverDowngrades ==
  (/\ Engine
   /\ pc = "ret"
   /\ returncode # NoCode
   /\ ~ReturnsFailure(Success(returncode, download_started, error_occurred), error_logs)
   /\ "raised" \notin ppDone)
    => success

C20_Witness ==
  /\ Engine
  /\ pc = "ret"
  /\ success
  /\ returncode = 0
  /\ download_lyrics
  /\ {"transcode_failed", "lyrics_failed"} \subseteq ppDone

\* C21: during transcoding a source audio file is gone only if the transcoder
\* for that file exited successfully; after a failed or crashed conversion of
\* a file, that source file is still there.
C21_SourceDeletedOnlyAfterSuccess ==
  ppc \in {"opus", "vtt", "returned"} =>
    \A f \in Range(opus_files) :
      /\ f \notin source => ffmpeg[f] = "ok"
      /\ ffmpeg[f] \in {"failed", "crashed"} => f \in source

C21_Witness ==
  /\ ppc = "returned"
  /\ \E f, g \in Range(opus_files) :
       /\ ffmpeg[f] = "ok"
       /\ f \notin source
       /\ ffmpeg[g] = "failed"
       /\ g \in source

\* C24: a failed conversion of one audio file prevents neither the conversion
\* of the audio files after it nor the caption conversion, and a failed
\* conversion of one caption file does not prevent that of the caption files
\* after it: when the loop over the audio files is over, the conversion of
\* every listed audio file has been attempted, and when download has returned
\* True with download_lyrics set, so has that of every caption file.
C24_StepsDoNotBlock ==
  /\ (ppc \in {"vtt", "returned"} \/ (ppc = "opus" /\ pk > Len(opus_files))) =>
       \A f \in Range(opus_files) : ffmpeg[f] # "none"
  /\ ppc = "opus" => \A k \in 1..(pk - 1) : k <= Len(opus_files) /\ ffmpeg[opus_files[k]] # "none"
  /\ (ppc = "vtt" /\ pk <= Len(vtt_files)) =>
       \A k \in 1..(pk - 1) : lrc[vtt_files[k]] # "none"
  /\ (pret = "True" /\ download_lyrics) =>
       /\ vtt_files = SetToSeq(captions)
       /\ \A f \in captions : lrc[f] # "none"

C24_Witness ==
  /\ pret = "True"
  /\ download_lyrics
  /\ Len(opus_files) = MaxFiles
  /\ Len(vtt_files) = MaxFiles
  /\ ffmpeg[opus_files[1]] \in {"failed", "crashed"}
  /\ ffmpeg[opus_files[MaxFiles]] = "ok"
  /\ lrc[vtt_files[1]] = "failed"
  /\ lrc[vtt_files[MaxFiles]] = "ok"

\* the lines read so far
ReadSoFar == SubSeq(stream, 1, sk - 1)

\* the line contains "error:"
HasErrorMarker(l) == ~l.blank /\ l.error

\* C22 (as stated): every line read that contains an error marker and does
\* not report "video unavailable" or "private video" sets the fatal-error flag
\* and is in the error list, and no other line sets the flag or is listed.
C22_ErrorLinesFatal ==
  /\ error_logs = SelectSeq(ReadSoFar, LAMBDA l : HasErrorMarker(l) /\ ~l.unavailable)
  /\ error_occurred <=> error_logs # << >>

\* C22 (amended): the same for the lines that contain the error marker and do
\* not contain "ignore": a line with both sets nothing.
C22_ErrorLinesFatalUnlessIgnored ==
  /\ error_logs =
       SelectSeq(ReadSoFar, LAMBDA l : HasErrorMarker(l) /\ ~l.ignore /\ ~l.unavailable)
  /\ error_occurred <=> error_logs # << >>

C22_Witness ==
  /\ sk = 3
  /\ HasErrorMarker(stream[1]) /\ stream[1].ignore /\ ~stream[1].unavailable
  /\ HasErrorMarker(stream[2]) /\ ~stream[2].ignore /\ ~stream[2].unavailable
  /\ error_logs = << stream[2] >>
  /\ error_occurred

\* the post-processing side effects the call in progress has performed
SideEffects == ppDone \cap {"cover", "transcode", "lyrics"}

\* the downloader run of the call in progress has been classified successful
ClassifiedOk ==
  /\ returncode # NoCode
  /\ pc \notin {"reading", "classify"}
  /\ Success(returncode, download_started, error_occurred)

\* C23: a download call performs the cover image fetch, the transcoding and
\* the lyrics conversion only after its downloader run has been classified
\* successful, and a call that returns False (the item ends Failed) has
\* performed none of them.
C23_PostProcessingOnlyAfterSuccess ==
  Engine =>
    /\ SideEffects # {} => ClassifiedOk
    /\ (pc = "ret" /\ ~success) => SideEffects = {}

\* C25: within one CLI run download, which starts the downloader once, is
\* called at most once per playlist id (no two items whose processing has
\* begun carry the same id), also when the resolved list holds an id twice or
\* an earlier attempt for it failed.
C25_OneInvocationPerId ==
  app = "cli" =>
    \A i, j \in Begun : remaining[i] = remaining[j] => i = j

\* a run has just begun: its partition is made and no item has been begun
RunBegins == pc \in {"loop", "done"} /\ Begun = {}

\* C26: when a CLI run begins, every resolved playlist is in exactly one of
\* the partitions completed (its id is in the loaded completed set) and
\* pending, and every item that ended Failed in the run before is pending
\* again.
C26_FailedIsPendingAgain ==
  (app = "cli" /\ RunBegins) =>
    /\ \A p \in Range(playlists) : ~(p \in Range(loaded) <=> p \in Range(remaining))
    /\ Range(remaining) \subseteq Range(playlists)
    /\ prevFailed \subseteq Range(remaining)

\* the places where the completion state is written after a mark
Marking == pc \in {"ret", "whisper", "s_open", "s_dump"}

\* C27: a write of the completion state that fails does not end the run: the
\* step in which it fails leaves the orchestrator in its loop (CLI,
\* dashboard) or at the return of download_playlist (script), from where the
\* next item is taken, and the id just marked is in the in-memory completed
\* set.
C27_WriteFailureContained ==
  [][(Marking /\ saveOk' = "failed") =>
       (pc' \in {"loop", "s_ret"} /\ CurId \in Range(mem'))]_vars

C27_Witness ==
  /\ app = "script"
  /\ pc = "s_reading"
  /\ idx = 2
  /\ writeFailed
  /\ status[1] = "Completed"
  /\ remaining[1] \in Range(mem)
  /\ remaining[1] \notin Range(LoadedState(disk))

\* C28: every entry of the descriptor cache holds, under key k, a descriptor
\* with id k; every descriptor get_playlist_info returns carries the id
\* extracted from its URL; and no step of a resolution (a from_channel
\* refresh, a get_playlist_info call) removes a cache entry or changes the id
\* of one, whatever it does to the title.
C28_CacheKeepsId ==
  /\ [](/\ \A k \in DOMAIN cache : cache[k].id = k
        /\ \A i \in DOMAIN calls : calls[i].ret # None => calls[i].ret.id = calls[i].id)
  /\ [][\A k \in DOMAIN cache : k \in DOMAIN cache' /\ cache'[k].id = cache[k].id]_vars

C28_Witness ==
  /\ rmethod = "channel"
  /\ rpc = "done"
  /\ Len(resolved) = MaxList
  /\ << "a" >> \in DOMAIN cache
  /\ cache[<< "a" >>].title = << "c" >>
  /\ cache[<< "a" >>] # SeedCache[<< "a" >>]
  /\ << "PL", "a" >> \in DOMAIN cache

\* C29: the first download call after the Clear Download Archives action
\* consults no ledger entry that an earlier download call had written (none
\* of the entries the ledger held when the button was used).
C29_ClearForcesRecheck ==
  aphase = "next" => consulted \cap atClear = {}

\* the run is one over all pending playlists (the CLI loop, Sync All Pending)
SyncAll == remaining = Remaining(playlists, loaded)

\* the completed set after the ids of rem that are in oks have been marked,
\* in list order, starting from done
RECURSIVE MarkAll(_, _, _)
MarkAll(done, rem, oks) ==
  IF rem = << >> THEN done
  ELSE MarkAll(IF Head(rem) \in oks THEN mark_completed(done, Head(rem)) ELSE done,
               Tail(rem), oks)

\* C30: the CLI loop and the dashboard's Sync All Pending are the same
\* function of the resolved list, the initial completed set and the results
\* of the download calls: both go through the pending playlists in list
\* order, and when the run is over (loop exhausted, or left by an exception)
\* the completed set is the initial one with the ids marked, in that order,
\* for which download returned True.
C30_SameAsDashboard ==
  (Engine /\ SyncAll) =>
    /\ \A i \in DOMAIN status : i > idx => status[i] = "Pending"
    /\ pc \in {"done", "crashed"} => mem = MarkAll(loaded, remaining, okReturned)

\* the ids of the completed set as persisted
Persisted(d) == Range(LoadedState(d))

\* C31: in the CLI and the dashboard no step takes an id out of the completed
\* set.  The persisted set never loses an id; the set in memory never loses
\* one while the process lives (a run, a sync, a re-sync of a completed
\* playlist, a failed download), and the set a starting process loads has
\* every persisted id.
C31_CompletedMonotonic ==
  [][(app \in {"cli", "dash"}) =>
       (/\ Persisted(disk) \subseteq Persisted(disk')
        /\ (IF pc' = "loaded" THEN Persisted(disk) ELSE Range(mem)) \subseteq Range(mem'))]_vars

\* a re-sync of a completed playlist has failed and its id is still completed
C31_Witness ==
  /\ app = "dash"
  /\ pc = "loop"
  /\ idx = 2
  /\ status[1] = "Failed"
  /\ remaining[1] \in Range(loaded)
  /\ remaining[1] \in Range(mem)

\* C32: every track of a playlist whose id is in the completed set is in that
\* playlist's destination directory, also when a track belongs to several
\* playlists (every track can be transferred: a failed transfer is an error
\* of the call, not an unavailable track).
C32_CompletedIsFullySynced ==
  \A p \in Range(mem) : TracksOf(p) \subseteq dirs[p]

\* C33: on the render that follows Reset Download State no id is completed,
\* and once an id has been marked in the sync that follows the reset, the
\* completed set, in memory and as persisted, holds no id but those marked
\* since the reset.
C33_ResetClearsTracking ==
  /\ pc = "reset" => \A id \in Ids : ~is_completed(mem, id)
  /\ (prevEnd = "reset" /\ marked # {}) =>
       (Range(mem) \cup Persisted(disk)) \subseteq marked

\* C34: in the script, when download_playlist is at its return statement
\* after a downloader run, the value it returns is True exactly if the
\* playlist id is in completed_playlists.
C34_TrueIffRecorded ==
  (app = "script" /\ pc = "s_ret") => (success <=> CurId \in Range(mem))

\* C35: once load_state has returned, the in-memory state is an object with
\* the fields completed_playlists, partially_downloaded and playlist_info,
\* whatever the state file held, and run() does not fail on a missing field.
C35_LoadYieldsAllFields ==
  /\ lpc \in {"loaded", "running", "run_raised"} =>
       (state.kind = "object" /\ Fields \subseteq state.keys)
  /\ lpc # "run_raised"

\* C36: clean_filename applied to a name it returned gives that name again,
\* for every title and both OS families.
C36_CleanFilenameIdempotent ==
  cpc = "out" => clean_filename(cout, cos) = cout

====
